---------------------------- MODULE Spec2Model ----------------------------
(***************************************************************************)
(* A model of the OpenBook v2 client library (openbook/src): the client    *)
(* facade OBClient, its order-account discovery (find_or_create_account),  *)
(* the conversion functions of MarketContext and OBClient, and the         *)
(* instructions the order operations build.                                *)
(*                                                                         *)
(* Two specifications share the module.  Spec is the life cycle of client  *)
(* sessions against the remote ledger: construction (OBClient::new) and    *)
(* find_or_create_account, one action per suspension point (.await), with  *)
(* the remote answering or failing at each.  ConvSpec applies the          *)
(* conversion functions and the order operations to a client over a        *)
(* market drawn from a bounded set.                                        *)
(***************************************************************************)
EXTENDS Integers, Sequences, FiniteSets, TLC

(***************************************************************************)
(* Bounds of the model.                                                    *)
(***************************************************************************)
\* the remote ledger holds at most this many order accounts of the owner
MaxAccounts == 2
\* account numbers of order accounts range over 0..MaxAccountNum
MaxAccountNum == 1

\* decimal counts of a market's base and quote tokens range over 0..MaxDecimals
MaxDecimals == 2
\* USD-denominated sizes range over 0..MaxQuoteUsd
MaxQuoteUsd == 1
\* TLC's integers are 32 bits wide: u64 and i64 are modelled U64Bits wide,
\* wide enough that sizes in the ranges above overflow nowhere, as in the
\* program, while the saturated values of the float casts do
U64Bits == 24
\* u32 (account numbers) is modelled U32Bits wide; account numbers up to
\* MaxAccountNum + 1 stay below the largest u32
U32Bits == 3
\* the gateway hands out blockhashes 0..MaxBlock, each newer than the last
MaxBlock == 1

\* The tasks that hold the client: the main task constructs it.
Main == "main"
Callers == {"main", "second"}
\* The owner whose key every session signs with, and a stranger.
Owner == "owner"
Owners == {"owner", "stranger"}
\* ob_client.rs:401, the name find_or_create_account looks for
DesiredName == "random"
Names == {"random", "other"}

(***************************************************************************)
(* Addresses (Pubkey).  A derived address is a pure, injective function of *)
(* its seeds, so it is modelled as the record of its seeds.                *)
(***************************************************************************)
\* Pubkey::default(), the all-zero address
DefaultPubkey == [seed |-> "default"]

\* Pubkey::find_program_address(["OpenOrders", owner, account_num le bytes])
OpenOrdersAddress(owner, account_num) ==
    [seed |-> "OpenOrders", owner |-> owner, num |-> account_num]

\* Pubkey::find_program_address(["OpenOrdersIndexer", owner])
OpenOrdersIndexerAddress(owner) ==
    [seed |-> "OpenOrdersIndexer", owner |-> owner]

\* get_associated_token_address(owner, mint)
AssociatedTokenAddress(owner, mint) ==
    [seed |-> "ata", owner |-> owner, mint |-> mint]

None == [some |-> FALSE]
Some(v) == [some |-> TRUE, val |-> v]

(***************************************************************************)
(* The Market account (openbook_v2::state::Market), as far as the client   *)
(* reads it.                                                               *)
(***************************************************************************)
MarketOf(bd, qd, bl, ql, fee) ==
    [base_decimals |-> bd, quote_decimals |-> qd,
     base_lot_size |-> bl, quote_lot_size |-> ql, maker_fee |-> fee,
     base_mint |-> [seed |-> "base_mint"], quote_mint |-> [seed |-> "quote_mint"],
     market_base_vault |-> [seed |-> "base_vault"],
     market_quote_vault |-> [seed |-> "quote_vault"],
     bids |-> [seed |-> "bids"], asks |-> [seed |-> "asks"],
     event_heap |-> [seed |-> "event_heap"],
     oracle_a |-> None, oracle_b |-> None]

\* the address of the market account (new's market_id argument)
MarketId == [seed |-> "market"]

VARIABLES
    \* ---- the remote ledger
    market,        \* the Market account stored at MarketId
    accounts,      \* order accounts in the gateway's listing order
    blockhash,     \* the latest blockhash the gateway hands out
    \* ---- client sessions (Spec)
    pc,            \* where each session's current call is suspended
    call,          \* the call a session is in: its operation and arguments
    ob_client,     \* the client value (NoClient before construction)
    account_num,   \* find_or_create_account's local account_num (NoNum: none)
    created,       \* the create-account transaction the current call built
    result,        \* what the session's last call returned
    log,           \* the remote calls the current call has issued, in order
    raced,         \* both tasks stood before the create step with one account_num
    \* ---- ConvSpec
    build,         \* "debug": integer overflow panics; "release": it wraps
    out            \* the last operation applied, its arguments and what it returned

remoteVars == <<market, accounts, blockhash>>
lifeVars == <<pc, call, ob_client, account_num, created, result, log, raced>>
convVars == <<build, out>>

(***************************************************************************)
(* The gateway's filtered program-account scan.                            *)
(***************************************************************************)
RECURSIVE FilterOwner(_, _)
FilterOwner(seq, owner) ==
    IF seq = <<>> THEN <<>>
    ELSE IF Head(seq).account.owner = owner
         THEN <<Head(seq)>> \o FilterOwner(Tail(seq), owner)
         ELSE FilterOwner(Tail(seq), owner)

\* Rpc::fetch_openbook_accounts: the (key, account) pairs of the program whose
\* discriminator is OpenOrdersAccount's and whose owner bytes are `owner`
fetch_openbook_accounts(owner) == FilterOwner(accounts, owner)

\* an order account as the ledger stores it
Tuple(owner, num, name) ==
    [key |-> OpenOrdersAddress(owner, num),
     account |-> [owner |-> owner, account_num |-> num, name |-> name]]


\* no operation of ConvSpec applied yet
NoOut == [op |-> "none"]

(***************************************************************************)
(* Values of the client.                                                   *)
(***************************************************************************)
\* an integer operation yields Val(v), or Abort when it panics
Val(v) == [ok |-> TRUE, v |-> v]
Abort == [ok |-> FALSE]
U32Max == 2^U32Bits - 1

NoClient == [init |-> FALSE]
NoNum == -1
NoResult == [kind |-> "None"]
Ok(v) == [kind |-> "Ok", val |-> v]
Err(e) == [kind |-> "Err", err |-> e]
Panicked == [kind |-> "Panic"]

\* one remote call of a call's log
Rpc(name, ok) == [rpc |-> name, ok |-> ok]

\* mutant of to_trx: the transaction is signed over the blockhash the client
\* saw first instead of the one just fetched
to_trx_stale(instructions, recent_hash) ==
    [instructions |-> instructions, fee_payer |-> Owner,
     signers |-> <<Owner>>, recent_blockhash |-> 0]

\* OBClient::to_trx after a successful blockhash fetch:
\* Transaction::new_signed_with_payer(instructions, Some(owner), [owner], recent_hash)
to_trx(instructions, recent_hash) ==
    [instructions |-> instructions, fee_payer |-> Owner,
     signers |-> <<Owner>>, recent_blockhash |-> recent_hash]

\* the instruction OBClient::create_open_orders_account builds from the
\* client's owner and market id
CreateOpenOrdersAccountIx(client, num, name) ==
    [program_id |-> "openbook_v2",
     accounts |-> [owner |-> client.owner,
                   open_orders_indexer |-> OpenOrdersIndexerAddress(client.owner),
                   open_orders_account |-> OpenOrdersAddress(client.owner, num),
                   payer |-> client.owner,
                   delegate_account |-> None,
                   market |-> client.market_id,
                   system_program |-> [seed |-> "system_program"]],
     data |-> [ix |-> "CreateOpenOrdersAccount", name |-> name]]

(***************************************************************************)
(* OBClient::new, up to its first suspension after the market fetch.       *)
(***************************************************************************)
\* the client value new builds from the fetched market (lines 116-134)
NewClient(market_info, open_orders_account) ==
    [init |-> TRUE,
     owner |-> Owner,
     market_id |-> MarketId,
     market_info |-> market_info,
     context |-> [market |-> market_info, address |-> MarketId],
     base_ata |-> AssociatedTokenAddress(Owner, market_info.base_mint),
     quote_ata |-> AssociatedTokenAddress(Owner, market_info.quote_mint),
     open_orders_account |->
         IF open_orders_account.some THEN open_orders_account.val
                                     ELSE DefaultPubkey]

\* mutant of NeedsAccount: new resolves the order account whatever was supplied
NeedsAccount_Always(open_orders_account) == TRUE

\* line 136: whether new goes on to find_or_create_account
NeedsAccount(open_orders_account) == ~open_orders_account.some

(***************************************************************************)
(* find_or_create_account's decisions on a scan result.                    *)
(***************************************************************************)
\* mutant of NameFound: the comparison of the name is inverted
NameFound_Inverted(tuples) ==
    \E i \in 1..Len(tuples) : tuples[i].account.name # DesiredName

\* lines 407-410: some scanned account carries the desired name
NameFound(tuples) ==
    \E i \in 1..Len(tuples) : tuples[i].account.name = DesiredName

\* lines 411-412: sort_by account_num (a stable insertion into the sorted rest)
RECURSIVE InsertByAccountNum(_, _)
InsertByAccountNum(t, sorted) ==
    IF sorted = <<>> THEN <<t>>
    ELSE IF t.account.account_num < Head(sorted).account.account_num
         THEN <<t>> \o sorted
         ELSE <<Head(sorted)>> \o InsertByAccountNum(t, Tail(sorted))

RECURSIVE SortByAccountNum(_)
SortByAccountNum(tuples) ==
    IF tuples = <<>> THEN <<>>
    ELSE InsertByAccountNum(tuples[Len(tuples)],
                            SortByAccountNum(SubSeq(tuples, 1, Len(tuples) - 1)))

\* mutant of NextAccountNum: the scan is not sorted before its last element
\* is taken
NextAccountNum_Unsorted(tuples, bld) ==
    IF tuples = <<>> THEN Val(0)
    ELSE LET last == tuples[Len(tuples)].account.account_num
         IN  IF last + 1 <= U32Max THEN Val(last + 1)
             ELSE IF bld = "debug" THEN Abort ELSE Val(0)

\* lines 411-416: sort by account_num, take the last one's number plus one
\* (u32 addition: overflow panics in a debug build and wraps in a release
\* build), or 0 for an empty scan
NextAccountNum(tuples, bld) ==
    IF tuples = <<>> THEN Val(0)
    ELSE LET sorted == SortByAccountNum(tuples)
             last == sorted[Len(sorted)].account.account_num
         IN  IF last + 1 <= U32Max THEN Val(last + 1)
             ELSE IF bld = "debug" THEN Abort ELSE Val(0)

\* lines 425-428: position of the first account with the desired name
\* (0 stands for Option::None)
NamePosition(tuples) ==
    IF NameFound(tuples)
    THEN CHOOSE i \in 1..Len(tuples) :
            /\ tuples[i].account.name = DesiredName
            /\ \A j \in 1..(i-1) : tuples[j].account.name # DesiredName
    ELSE 0

\* what the enclosing call returns once find_or_create_account resolved `key`
\* (line 430; inside new, lines 137-140)
Resolved(op, client, key) ==
    IF op = "new"
    THEN Ok([client EXCEPT !.open_orders_account = key])
    ELSE Ok(key)

\* mutant of Failed: new swallows the error of a later step and returns the
\* client it had built so far
Failed_KeepsClient(op, client, e) ==
    IF op = "new" /\ client.init THEN Ok(client) ELSE Err(e)

\* what the enclosing call returns when a remote call of it failed: `?`
\* hands the error to the caller (lines 115, 137, 406, 419, 424)
Failed(op, client, e) == Err(e)

(***************************************************************************)
(* Spec: one client against the remote ledger.  The main task constructs   *)
(* the client with OBClient::new; once it is constructed, every task holds *)
(* it (OBClient is Clone and find_or_create_account takes &self) and may   *)
(* call find_or_create_account, so two calls can interleave at their       *)
(* suspension points.                                                      *)
(***************************************************************************)
\* the ledger's state changes exactly when an order account is added
Epoch == Len(accounts)

\* a returned value with the ledger epochs at the call's start and return
Returned(r, c) ==
    [ret |-> r, op |-> call[c].op, start |-> call[c].start, end |-> Epoch]

NoCall == [op |-> "none", supplied |-> None, start |-> 0]
NoReturn == [ret |-> NoResult, op |-> "none", start |-> 0, end |-> 0]

\* the market the ledger of Spec holds
LifeMarket == MarketOf(2, 1, 1, 1, 0)

\* the order-account arguments new is called with
SuppliedAddresses == {None, Some(OpenOrdersAddress(Owner, 0))}

\* the order accounts that may be created for the owner
Creatable == {Tuple(Owner, n, name) : n \in 0..MaxAccountNum, name \in Names}

\* another owner's order account with the desired name, on the ledger from
\* the start
StrangerAccount == Tuple("stranger", 0, DesiredName)

\* whether task c is inside OBClient::new
InNew(c) == call[c].op = "new" /\ pc[c] \notin {"idle", "ready", "panicked"}

\* the client is constructed and in its tasks' hands
Constructed == ob_client.init /\ ~InNew(Main)

Init ==
    /\ market = LifeMarket
    /\ accounts = <<StrangerAccount>>
    /\ blockhash = 0
    /\ pc = [c \in Callers |-> "idle"]
    /\ call = [c \in Callers |-> NoCall]
    /\ ob_client = NoClient
    /\ account_num = [c \in Callers |-> NoNum]
    /\ created = [c \in Callers |-> None]
    /\ result = [c \in Callers |-> NoReturn]
    /\ log = [c \in Callers |-> <<>>]
    /\ raced = FALSE
    /\ build = "release"
    /\ out = NoOut

\* The owner, through anything but this client, has an order account created.  The engine initialises the
\* derived address, so an address that is already in use is rejected.
ExternalCreate(t) ==
    /\ Len(fetch_openbook_accounts(Owner)) < MaxAccounts
    /\ \A i \in 1..Len(accounts) : accounts[i].key # t.key
    /\ accounts' = Append(accounts, t)
    /\ UNCHANGED <<market, blockhash, lifeVars, convVars>>

\* a task enters a call: its locals are fresh
Enter(c, op, s) ==
    /\ call' = [call EXCEPT ![c] = [op |-> op, supplied |-> s, start |-> Epoch]]
    /\ log' = [log EXCEPT ![c] = <<>>]
    /\ account_num' = [account_num EXCEPT ![c] = NoNum]
    /\ created' = [created EXCEPT ![c] = None]
    /\ raced' = FALSE

\* the main task invokes OBClient::new(rpc_url, owner, open_orders_account, ..)
NewStart(s) ==
    /\ pc[Main] = "idle"
    /\ ~ob_client.init
    /\ pc' = [pc EXCEPT ![Main] = "new_fetch_market"]
    /\ Enter(Main, "new", s)
    /\ UNCHANGED <<remoteVars, ob_client, result, convVars>>

\* new, lines 113-140 up to the next suspension: the market fetch answers
NewFetchMarket(ok) ==
    /\ pc[Main] = "new_fetch_market"
    /\ log' = [log EXCEPT ![Main] = Append(@, Rpc("get_account", ok))]
    /\ IF ~ok
       THEN /\ result' = [result EXCEPT ![Main] =
                  Returned(Failed("new", NoClient, "fetch_anchor_account"), Main)]
            /\ pc' = [pc EXCEPT ![Main] = "idle"]
            /\ UNCHANGED ob_client
       ELSE LET cl == NewClient(market, call[Main].supplied)
            IN  /\ ob_client' = cl
                /\ IF NeedsAccount(call[Main].supplied)
                   THEN /\ pc' = [pc EXCEPT ![Main] = "foca_scan1"]
                        /\ UNCHANGED result
                   ELSE /\ pc' = [pc EXCEPT ![Main] = "ready"]
                        /\ result' = [result EXCEPT ![Main] = Returned(Ok(cl), Main)]
    /\ UNCHANGED <<remoteVars, call, account_num, created, raced, convVars>>

\* a task invokes find_or_create_account on the constructed client
FocaStart(c) ==
    /\ Constructed
    /\ pc[c] \in {"idle", "ready"}
    /\ pc' = [pc EXCEPT ![c] = "foca_scan1"]
    /\ Enter(c, "find_or_create_account", None)
    /\ UNCHANGED <<remoteVars, ob_client, result, convVars>>

\* a remote call of find_or_create_account failed: the error goes to the
\* caller; inside new the client under construction is dropped
FocaFail(c, e) ==
    /\ result' = [result EXCEPT ![c] = Returned(Failed(call[c].op, ob_client, e), c)]
    /\ IF call[c].op = "new"
       THEN /\ pc' = [pc EXCEPT ![c] = "idle"]
            /\ ob_client' = NoClient
       ELSE /\ pc' = [pc EXCEPT ![c] = "ready"]
            /\ UNCHANGED ob_client

\* find_or_create_account, lines 403-420 up to the next suspension: the
\* first scan answers
FocaScan1(c, ok) ==
    /\ pc[c] = "foca_scan1"
    /\ log' = [log EXCEPT ![c] = Append(@, Rpc("get_program_accounts", ok))]
    /\ IF ~ok
       THEN FocaFail(c, "fetch_openbook_accounts") /\ UNCHANGED account_num
       ELSE LET tuples == fetch_openbook_accounts(Owner)
                num == NextAccountNum(tuples, build)
            IN  IF NameFound(tuples)
                THEN /\ pc' = [pc EXCEPT ![c] = "foca_scan2"]
                     /\ UNCHANGED <<account_num, ob_client, result>>
                ELSE IF num.ok
                THEN /\ pc' = [pc EXCEPT ![c] = "foca_create"]
                     /\ account_num' = [account_num EXCEPT ![c] = num.v]
                     /\ UNCHANGED <<ob_client, result>>
                ELSE \* account_num + 1 overflowed with overflow checks on
                     /\ pc' = [pc EXCEPT ![c] = "panicked"]
                     /\ result' = [result EXCEPT ![c] = Returned(Panicked, c)]
                     /\ ob_client' = IF call[c].op = "new" THEN NoClient
                                                           ELSE ob_client
                     /\ UNCHANGED account_num
    /\ raced' = (raced \/ \A d \in Callers :
                              /\ pc'[d] = "foca_create"
                              /\ account_num'[d] = account_num'[c])
    /\ UNCHANGED <<remoteVars, call, created, convVars>>

\* create_open_orders_account (lines 454-503): the instruction is built and
\* to_trx's blockhash fetch answers; the signed transaction is returned to
\* find_or_create_account, which only checks it for an error (lines 417-419)
FocaCreate(c, ok) ==
    /\ pc[c] = "foca_create"
    /\ log' = [log EXCEPT ![c] = Append(@, Rpc("get_latest_blockhash", ok))]
    /\ IF ~ok
       THEN FocaFail(c, "Failed to create account...") /\ UNCHANGED created
       ELSE /\ created' = [created EXCEPT ![c] =
                  Some(to_trx(<<CreateOpenOrdersAccountIx(ob_client, account_num[c],
                                                          DesiredName)>>,
                              blockhash))]
            /\ pc' = [pc EXCEPT ![c] = "foca_scan2"]
            /\ UNCHANGED <<ob_client, result>>
    /\ UNCHANGED <<remoteVars, call, account_num, raced, convVars>>

\* find_or_create_account, lines 421-430: the second scan answers
FocaScan2(c, ok) ==
    /\ pc[c] = "foca_scan2"
    /\ log' = [log EXCEPT ![c] = Append(@, Rpc("get_program_accounts", ok))]
    /\ IF ~ok
       THEN FocaFail(c, "fetch_openbook_accounts")
       ELSE LET tuples == fetch_openbook_accounts(Owner)
                index == NamePosition(tuples)
            IN  IF index = 0
                THEN \* Option::unwrap on None: the task panics
                     /\ pc' = [pc EXCEPT ![c] = "panicked"]
                     /\ result' = [result EXCEPT ![c] = Returned(Panicked, c)]
                     /\ ob_client' = IF call[c].op = "new" THEN NoClient ELSE ob_client
                ELSE LET r == Resolved(call[c].op, ob_client, tuples[index].key)
                     IN  /\ pc' = [pc EXCEPT ![c] = "ready"]
                         /\ result' = [result EXCEPT ![c] = Returned(r, c)]
                         /\ ob_client' = IF call[c].op = "new" /\ r.kind = "Ok"
                                         THEN r.val ELSE ob_client
    /\ UNCHANGED <<remoteVars, call, account_num, created, raced, convVars>>

\* the gateway's answers to a balance query: the ui_amount field of the
\* UiTokenAmount it returns (an Option<f64>)
UiAmounts == {None, Some(1)}

\* mutant of TokenBalanceResult: a failed query is swallowed and reported as a
\* balance of zero
TokenBalanceResult_Swallowed(ok, ui_amount) ==
    IF ~ok THEN Ok(0)
    ELSE IF ui_amount.some THEN Ok(ui_amount.val)
    ELSE Panicked

\* what get_token_balance returns (lines 631-636): `?` hands a failed query
\* to the caller, and Option::unwrap panics when no amount is reported
TokenBalanceResult(ok, ui_amount) ==
    IF ~ok THEN Err("get_token_account_balance")
    ELSE IF ui_amount.some THEN Ok(ui_amount.val)
    ELSE Panicked

\* a balance query and its return; the ledger epochs are recorded for the
\* order-account operations only
BalanceCall == [op |-> "get_token_balance", supplied |-> None, start |-> 0]
BalanceReturn == [ret |-> NoResult, op |-> "get_token_balance", start |-> 0, end |-> 0]

\* a task calls get_token_balance on the constructed client (lines 630-637):
\* one balance query, whose answer decides the result
GetTokenBalance(c, ok, ui_amount) ==
    /\ Constructed
    /\ pc[c] \in {"idle", "ready"}
    /\ call' = [call EXCEPT ![c] = BalanceCall]
    /\ log' = [log EXCEPT ![c] = <<Rpc("get_token_account_balance", ok)>>]
    /\ account_num' = [account_num EXCEPT ![c] = NoNum]
    /\ created' = [created EXCEPT ![c] = None]
    /\ LET r == TokenBalanceResult(ok, ui_amount)
       IN  /\ result' = [result EXCEPT ![c] = [BalanceReturn EXCEPT !.ret = r]]
           /\ pc' = [pc EXCEPT ![c] = IF r = Panicked THEN "panicked" ELSE "ready"]
    /\ UNCHANGED <<remoteVars, ob_client, raced, convVars>>

Next ==
    \/ \E t \in Creatable : ExternalCreate(t)
    \/ \E s \in SuppliedAddresses : NewStart(s)
    \/ \E ok \in BOOLEAN : NewFetchMarket(ok)
    \/ \E c \in Callers : FocaStart(c)
    \/ \E c \in Callers, ok \in BOOLEAN : FocaScan1(c, ok)
    \/ \E c \in Callers, ok \in BOOLEAN : FocaCreate(c, ok)
    \/ \E c \in Callers, ok \in BOOLEAN : FocaScan2(c, ok)

vars == <<remoteVars, lifeVars, convVars>>

Spec == Init /\ [][Next]_vars

(***************************************************************************)
(* SeqSpec: the main task alone, calling the client's remote operations    *)
(* one after another (as src/bin/src/main.rs does) against a ledger that   *)
(* others change in between.                                               *)
(***************************************************************************)
SeqNext ==
    \/ \E t \in Creatable : ExternalCreate(t)
    \/ \E s \in SuppliedAddresses : NewStart(s)
    \/ \E ok \in BOOLEAN : NewFetchMarket(ok)
    \/ FocaStart(Main)
    \/ \E ok \in BOOLEAN : FocaScan1(Main, ok)
    \/ \E ok \in BOOLEAN : FocaCreate(Main, ok)
    \/ \E ok \in BOOLEAN : FocaScan2(Main, ok)
    \/ \E ok \in BOOLEAN, a \in UiAmounts : GetTokenBalance(Main, ok, a)

SeqSpec == Init /\ [][SeqNext]_vars

(***************************************************************************)
(* Properties of Spec.                                                     *)
(***************************************************************************)
\* task c is not inside a call
AtRest(c) == pc[c] \in {"idle", "ready", "panicked"}

\* every remote call of c's current (or last) call answered
NoRemoteFailure(c) == \A i \in 1..Len(log[c]) : log[c][i].ok

\* the owner's account with the desired name exists among the first n
\* accounts of the ledger (the ledger only grows, so these are the ledger
\* as it was at epoch n)
OwnerHasNameAt(n) ==
    \E i \in 1..n : /\ accounts[i].account.owner = Owner
                    /\ accounts[i].account.name = DesiredName

\* key is the address of an account of the owner named DesiredName
IsDesiredAccount(key) ==
    \E i \in 1..Len(accounts) : /\ accounts[i].key = key
                                /\ accounts[i].account.owner = Owner
                                /\ accounts[i].account.name = DesiredName

\* the address a finished call resolved
KeyOf(r) == IF r.op = "new" THEN r.ret.val.open_orders_account ELSE r.ret.val

\* C1: a find_or_create_account whose first scan found no account with the
\* desired name, and none of whose remote calls failed, returns Ok with the
\* address of an account of the owner that carries the desired name.
C1_CreatedAccountResolved ==
    \A c \in Callers :
        (AtRest(c) /\ account_num[c] # NoNum /\ NoRemoteFailure(c))
        => /\ result[c].ret.kind = "Ok"
           /\ IsDesiredAccount(KeyOf(result[c]))

\* C2: (a) a find_or_create_account call that finds, when it starts, an
\* account of the owner with the desired name builds no create-account
\* transaction; (b) when a task's find_or_create_account returns Ok and its
\* previous find_or_create_account returned Ok, with the ledger unchanged from
\* the start of the first to the return of the second, both return the same
\* address.
C2_NoSecondCreate ==
    \A c \in Callers :
        (call[c].op # "none" /\ OwnerHasNameAt(call[c].start)) => ~created[c].some

C2_SameAddress ==
    \A c \in Callers :
        (/\ result'[c] # result[c]
         /\ result[c].op = "find_or_create_account"
         /\ result'[c].op = "find_or_create_account"
         /\ result[c].ret.kind = "Ok"
         /\ result'[c].ret.kind = "Ok"
         /\ result[c].start = result'[c].end)
        => result'[c].ret.val = result[c].ret.val

\* (c) two tasks whose find_or_create_account calls returned Ok in one and the
\* same ledger state hold the same address
C2_SameAcrossTasks ==
    \A c, d \in Callers :
        (/\ result[c].op = "find_or_create_account" /\ result[c].ret.kind = "Ok"
         /\ result[d].op = "find_or_create_account" /\ result[d].ret.kind = "Ok"
         /\ result[c].start = result[c].end
         /\ result[d].start = result[d].end
         /\ result[c].end = result[d].end)
        => result[c].ret.val = result[d].ret.val

C3_DuplicateRejected ==
    (raced /\ \A c \in Callers : AtRest(c) /\ created[c].some)
    => \E c \in Callers : result[c].ret.kind = "Err"

\* C4: new runs find_or_create_account exactly when no order-account address
\* was supplied.  With an address supplied the one remote call of new is the
\* market fetch and the returned client's order account is that address.
\* Without one, the scans and the create come after the answered market fetch
\* and the derivation of the collateral addresses, and the returned client's
\* order account is the address find_or_create_account resolved.
C4_NewRunsFocaIffNoAddress ==
    call[Main].op = "new" =>
      LET s == call[Main].supplied
          r == result[Main]
      IN  /\ s.some =>
               /\ pc[Main] \in {"idle", "new_fetch_market", "ready"}
               /\ \A i \in 1..Len(log[Main]) : log[Main][i].rpc = "get_account"
               /\ Len(log[Main]) <= 1
               /\ ~created[Main].some
               /\ (pc[Main] = "ready" =>
                     /\ r.ret.kind = "Ok"
                     /\ r.ret.val.open_orders_account = s.val
                     /\ ob_client = r.ret.val)
          /\ ~s.some =>
               /\ (pc[Main] \in {"foca_scan1", "foca_create", "foca_scan2"} =>
                     /\ log[Main][1] = Rpc("get_account", TRUE)
                     /\ ob_client.init
                     /\ ob_client.base_ata =
                           AssociatedTokenAddress(Owner, market.base_mint)
                     /\ ob_client.quote_ata =
                           AssociatedTokenAddress(Owner, market.quote_mint))
               /\ (pc[Main] = "ready" =>
                     /\ r.ret.kind = "Ok"
                     /\ Len(log[Main]) >= 3
                     /\ log[Main][1] = Rpc("get_account", TRUE)
                     /\ \A i \in 2..Len(log[Main]) : log[Main][i].rpc # "get_account"
                     /\ log[Main][Len(log[Main])] = Rpc("get_program_accounts", TRUE)
                     /\ IsDesiredAccount(r.ret.val.open_orders_account)
                     /\ ob_client = r.ret.val)

\* C4's cases: new returned a client for a supplied address, and new returned
\* a client whose order account find_or_create_account resolved
C4_Witness ==
    /\ call[Main].op = "new"
    /\ pc[Main] = "ready"
    /\ ~call[Main].supplied.some
    /\ result[Main].ret.kind = "Ok"
    /\ IsDesiredAccount(ob_client.open_orders_account)

\* C5: when a remote call of new failed, new returns an error and the caller
\* holds no client; a client that new returns is fully initialised: its order
\* account is the supplied one or a resolved one, never the default address
\* left from a step that failed.
C5_FailedNewReturnsNoClient ==
    (call[Main].op = "new" /\ AtRest(Main) /\ result[Main].op = "new") =>
      /\ ~NoRemoteFailure(Main) =>
            /\ result[Main].ret.kind = "Err"
            /\ ~Constructed
      /\ result[Main].ret.kind # "Ok" => ~Constructed
      /\ result[Main].ret.kind = "Ok" =>
            /\ NoRemoteFailure(Main)
            /\ result[Main].ret.val.init
            /\ (~call[Main].supplied.some =>
                  result[Main].ret.val.open_orders_account # DefaultPubkey)

\* C5's case: new failed inside find_or_create_account, after the client value
\* with the default order account had been built
C5_Witness ==
    /\ call[Main].op = "new"
    /\ pc[Main] = "idle"
    /\ result[Main].ret.kind = "Err"
    /\ Len(log[Main]) >= 2
    /\ ~Constructed

(***************************************************************************)
(* Properties of SeqSpec.                                                  *)
(***************************************************************************)
\* the error an operation returns for a failed remote call: the call's own
\* failure, which find_or_create_account wraps in a context when the call
\* was create_open_orders_account's blockhash fetch (line 419)
ErrorOfCall(rpc) ==
    CASE rpc = "get_account" -> "fetch_anchor_account"
      [] rpc = "get_program_accounts" -> "fetch_openbook_accounts"
      [] rpc = "get_latest_blockhash" -> "Failed to create account..."
      [] OTHER -> rpc

\* C12: when a remote call (market fetch, account scan, blockhash fetch,
\* balance query) of an operation fails, the failed call is the last remote
\* call the operation issued (it is not repeated and none follows), the
\* operation has returned, and what it returned is that call's error: no
\* client, address, transaction or amount
C12_RemoteFailurePropagated ==
    \A c \in Callers : \A i \in 1..Len(log[c]) :
        ~log[c][i].ok =>
            /\ i = Len(log[c])
            /\ pc[c] \in {"idle", "ready"}
            /\ result[c].op = call[c].op
            /\ result[c].ret = Err(ErrorOfCall(log[c][i].rpc))

\* C12's case: find_or_create_account scanned the accounts, went on to create
\* one, and the blockhash fetch of the create transaction failed
C12_Witness ==
    /\ call[Main].op = "find_or_create_account"
    /\ Len(log[Main]) = 2
    /\ log[Main][1] = Rpc("get_program_accounts", TRUE)
    /\ log[Main][2] = Rpc("get_latest_blockhash", FALSE)
    /\ result[Main].ret.kind = "Err"
    /\ pc[Main] = "ready"

\* C15: no operation panics on a remote-data anomaly: a balance query that
\* reports no amount, or a re-scan without an account of the desired name,
\* gives the caller an error
C15_AnomalyIsAnError ==
    \A c \in Callers :
        /\ pc[c] # "panicked"
        /\ result[c].ret # Panicked

(***************************************************************************)
(* Machine arithmetic.  An integer operation yields Val(v), or Abort when  *)
(* it panics.                                                              *)
(***************************************************************************)
U64Max == 2^U64Bits - 1
I64Max == 2^(U64Bits - 1) - 1
I64Min == -(2^(U64Bits - 1))

Builds == {"debug", "release"}

\* u64 + u64 and u64 * u64: overflow panics with overflow checks (debug) and
\* wraps without (release)
AddU64(a, b, bld) ==
    IF ~a.ok \/ ~b.ok THEN Abort
    ELSE IF a.v + b.v <= U64Max THEN Val(a.v + b.v)
    ELSE IF bld = "debug" THEN Abort ELSE Val((a.v + b.v) % 2^U64Bits)

\* a * b modulo 2^U64Bits (wrapping_mul), computed by doubling so that every
\* intermediate value stays below 2^(U64Bits + 1)
RECURSIVE MulWrapping(_, _)
MulWrapping(a, b) ==
    IF b = 0 THEN 0
    ELSE (2 * MulWrapping(a, b \div 2) + (b % 2) * a) % 2^U64Bits

MulU64(a, b, bld) ==
    IF ~a.ok \/ ~b.ok THEN Abort
    ELSE IF a.v = 0 \/ b.v <= U64Max \div a.v THEN Val(a.v * b.v)
    ELSE IF bld = "debug" THEN Abort ELSE Val(MulWrapping(a.v, b.v))

\* u64 / u64: division by zero panics in every build
DivU64(a, b) ==
    IF ~a.ok \/ ~b.ok \/ b.v = 0 THEN Abort ELSE Val(a.v \div b.v)

\* i64 as u64 and u64 as i64: the same bits
I64AsU64(x) == IF x < 0 THEN x + 2^U64Bits ELSE x
U64AsI64(x) == IF x > I64Max THEN x - 2^U64Bits ELSE x

(***************************************************************************)
(* f64 values: NaN, the infinities, and finite values as exact fractions   *)
(* n/d with d > 0.  On the prices and sizes of this model the program's    *)
(* f64 products and quotients, once truncated, equal the exact ones.       *)
(***************************************************************************)
NaN == [k |-> "nan"]
PosInf == [k |-> "inf"]
NegInf == [k |-> "ninf"]
Fin(n, d) == [k |-> "fin", n |-> n, d |-> d]

\* the prices of the model: -1.5, 0, 0.5, 1, 1.5, 16, and the non-finite ones
Prices ==
    {NaN, PosInf, NegInf}
    \cup {Fin(n, 2) : n \in {-3, 0, 1, 2, 3, 32}}

\* x * (m as f64), for an integer m >= 0
FMulInt(x, m) ==
    CASE x.k = "nan" -> NaN
      [] x.k = "inf" -> IF m = 0 THEN NaN ELSE PosInf
      [] x.k = "ninf" -> IF m = 0 THEN NaN ELSE NegInf
      [] OTHER -> Fin(x.n * m, x.d)

\* (q as f64) / x, for an integer q >= 0
FDivInt(q, x) ==
    CASE x.k = "nan" -> NaN
      [] x.k \in {"inf", "ninf"} -> Fin(0, 1)
      [] x.n = 0 -> IF q = 0 THEN NaN ELSE PosInf
      [] x.n > 0 -> Fin(q * x.d, x.n)
      [] OTHER -> Fin(-(q * x.d), -x.n)

\* truncation toward zero of a finite value
Trunc(x) == IF x.n >= 0 THEN x.n \div x.d ELSE -((-x.n) \div x.d)

\* `x as i64`: NaN is 0, everything else saturates
F64AsI64(x) ==
    CASE x.k = "nan" -> 0
      [] x.k = "inf" -> I64Max
      [] x.k = "ninf" -> I64Min
      [] OTHER -> IF Trunc(x) > I64Max THEN I64Max
                  ELSE IF Trunc(x) < I64Min THEN I64Min ELSE Trunc(x)

\* `x as u64`: NaN is 0, everything else saturates
F64AsU64(x) ==
    CASE x.k = "nan" -> 0
      [] x.k = "inf" -> U64Max
      [] x.k = "ninf" -> 0
      [] OTHER -> IF Trunc(x) > U64Max THEN U64Max
                  ELSE IF Trunc(x) < 0 THEN 0 ELSE Trunc(x)

(***************************************************************************)
(* The conversion functions.                                               *)
(***************************************************************************)
\* openbook_v2's FEES_SCALE_FACTOR
FEES_SCALE_FACTOR == 10^6

\* openbook_v2::state::Market::maker_fees_floor: a positive maker fee applied
\* to the amount and floored, zero for a rebate
maker_fees_floor(m, amount) ==
    IF m.maker_fee > 0
    THEN (amount * m.maker_fee) \div FEES_SCALE_FACTOR
    ELSE 0

\* openbook_v2::state::Market::get_vault_by_side
get_vault_by_side(m, side) ==
    IF side = "Bid" THEN m.market_quote_vault ELSE m.market_base_vault

\* MarketContext::max_base_lots
max_base_lots(m, base_size) ==
    DivU64(base_size, Val(I64AsU64(m.base_lot_size)))

\* mutant of max_quote_lots_including_maker_fees: the fee is taken off the lots
max_quote_lots_fee_subtracted(m, quote_size, bld) ==
    IF ~quote_size.ok THEN Abort
    ELSE LET lots == DivU64(quote_size, Val(I64AsU64(m.quote_lot_size)))
             fees == maker_fees_floor(m, quote_size.v)
         IN  IF ~lots.ok \/ lots.v < fees THEN Abort ELSE Val(lots.v - fees)

\* MarketContext::max_quote_lots_including_maker_fees
max_quote_lots_including_maker_fees(m, quote_size, bld) ==
    IF ~quote_size.ok THEN Abort
    ELSE AddU64(DivU64(quote_size, Val(I64AsU64(m.quote_lot_size))),
                Val(maker_fees_floor(m, quote_size.v)), bld)

\* MarketContext::max_quote_lots_including_maker_fees_from_usd
max_quote_lots_including_maker_fees_from_usd(m, quote_size_usd, bld) ==
    max_quote_lots_including_maker_fees(
        m, MulU64(quote_size_usd, Val(10^6), bld), bld)

\* MarketContext::max_base_lots_from_usd
max_base_lots_from_usd(m, base_size, bld) ==
    max_base_lots(m, MulU64(base_size, Val(m.base_decimals), bld))

\* OBClient::native_price_to_lots_price
native_price_to_lots_price(m, limit_price) ==
    LET base_factor == 10^m.base_decimals
        quote_factor == 10^m.quote_decimals
        price_factor == base_factor \div quote_factor
    IN  F64AsI64(FMulInt(limit_price, price_factor))

\* OBClient::get_base_size_from_quote
get_base_size_from_quote(m, quote_size, limit_price) ==
    LET base_factor == 10^m.base_decimals
    IN  F64AsU64(FMulInt(FDivInt(quote_size, limit_price), base_factor))

(***************************************************************************)
(* The order operations.                                                   *)
(***************************************************************************)
Sides == {"Bid", "Ask"}

\* mutant of limit_order_ata: the two sides' token accounts are swapped
limit_order_ata_swapped(client, side) ==
    IF side = "Bid" THEN client.base_ata ELSE client.quote_ata

\* place_limit_order, lines 178-181: the owner's token account for a side
limit_order_ata(client, side) ==
    IF side = "Bid" THEN client.quote_ata ELSE client.base_ata

\* mutant of market_order_ata: the two sides' token accounts are swapped
market_order_ata_swapped(client, side) ==
    IF side = "Bid" THEN client.base_ata ELSE client.quote_ata

\* place_market_order, lines 239-242
market_order_ata(client, side) ==
    IF side = "Bid" THEN client.quote_ata ELSE client.base_ata

\* the PlaceOrder instruction both operations assemble (lines 187-221, 249-283)
PlaceOrderIx(client, ata, vault, side, price_lots, base_lots, quote_lots, oid, current_time) ==
    [program_id |-> "openbook_v2",
     accounts |-> [open_orders_account |-> client.open_orders_account,
                   open_orders_admin |-> None,
                   signer |-> client.owner,
                   market |-> client.market_id,
                   bids |-> client.market_info.bids,
                   asks |-> client.market_info.asks,
                   event_heap |-> client.market_info.event_heap,
                   oracle_a |-> client.market_info.oracle_a,
                   oracle_b |-> client.market_info.oracle_b,
                   user_token_account |-> ata,
                   market_vault |-> vault,
                   token_program |-> [seed |-> "token_program"]],
     data |-> [ix |-> "PlaceOrder",
               side |-> side,
               price_lots |-> price_lots,
               max_base_lots |-> U64AsI64(base_lots),
               max_quote_lots_including_fees |-> U64AsI64(quote_lots),
               client_order_id |-> oid,
               order_type |-> "PostOnly",
               expiry_timestamp |-> current_time + 86400,
               self_trade_behavior |-> "AbortTransaction",
               limit |-> 12]]

\* place_limit_order up to to_trx (lines 171-221): the instruction, or Abort
\* when an integer operation on the way panics
place_limit_order_ix(client, limit_price, quote_size, side, current_time, oid, bld) ==
    LET price_lots == native_price_to_lots_price(client.market_info, limit_price)
        max_quote_lots == max_quote_lots_including_maker_fees_from_usd(
                              client.context.market, Val(quote_size), bld)
        base_size == get_base_size_from_quote(client.market_info, quote_size, limit_price)
        max_base == max_base_lots_from_usd(client.context.market, Val(base_size), bld)
        ata == limit_order_ata(client, side)
        vault == get_vault_by_side(client.market_info, side)
    IN  IF ~max_quote_lots.ok \/ ~max_base.ok THEN Abort
        ELSE Val(PlaceOrderIx(client, ata, vault, side, price_lots, max_base.v,
                              max_quote_lots.v, oid, current_time))

\* place_market_order up to to_trx (lines 232-283)
place_market_order_ix(client, limit_price, quote_size, side, current_time, oid, bld) ==
    LET price_lots == native_price_to_lots_price(client.market_info, limit_price)
        max_quote_lots == max_quote_lots_including_maker_fees_from_usd(
                              client.context.market, Val(quote_size), bld)
        base_size == get_base_size_from_quote(client.market_info, quote_size, limit_price)
        max_base == max_base_lots_from_usd(client.context.market, Val(base_size), bld)
        ata == market_order_ata(client, side)
        vault == get_vault_by_side(client.market_info, side)
    IN  IF ~max_quote_lots.ok \/ ~max_base.ok THEN Abort
        ELSE Val(PlaceOrderIx(client, ata, vault, side, price_lots, max_base.v,
                              max_quote_lots.v, oid, current_time))

\* cancel_limit_order, lines 310-327
CancelOrderIx(client, order_id) ==
    [program_id |-> "openbook_v2",
     accounts |-> [open_orders_account |-> client.open_orders_account,
                   signer |-> client.owner,
                   market |-> client.market_id,
                   bids |-> client.market_info.bids,
                   asks |-> client.market_info.asks],
     data |-> [ix |-> "CancelOrder", order_id |-> order_id]]

\* cancel_all, lines 354-372
CancelAllOrdersIx(client) ==
    [program_id |-> "openbook_v2",
     accounts |-> [open_orders_account |-> client.open_orders_account,
                   signer |-> client.owner,
                   market |-> client.market_id,
                   bids |-> client.market_info.bids,
                   asks |-> client.market_info.asks],
     data |-> [ix |-> "CancelAllOrders", side_option |-> None, limit |-> 255]]

\* deposit, lines 589-610: a is the record of the call's arguments
DepositIx(client, a) ==
    [program_id |-> "openbook_v2",
     accounts |-> [open_orders_account |-> client.open_orders_account,
                   owner |-> client.owner,
                   market |-> a.market_address,
                   user_base_account |-> a.user_base_account,
                   user_quote_account |-> a.user_quote_account,
                   market_base_vault |-> a.market_base_vault,
                   market_quote_vault |-> a.market_quote_vault,
                   token_program |-> [seed |-> "token_program"]],
     data |-> [ix |-> "Deposit", base_amount |-> a.base_amount,
               quote_amount |-> a.quote_amount]]

\* create_market, lines 534-573: a is the record of the call's arguments
CreateMarketIx(client, a) ==
    [program_id |-> "openbook_v2",
     accounts |-> [market |-> a.market,
                   market_authority |-> a.market_authority,
                   bids |-> a.bids,
                   asks |-> a.asks,
                   event_heap |-> a.event_heap,
                   payer |-> client.owner,
                   market_base_vault |-> client.base_ata,
                   market_quote_vault |-> client.quote_ata,
                   base_mint |-> a.base_mint,
                   quote_mint |-> a.quote_mint,
                   system_program |-> [seed |-> "system_program"],
                   oracle_a |-> a.oracle_a,
                   oracle_b |-> a.oracle_b,
                   collect_fee_admin |-> a.collect_fee_admin,
                   open_orders_admin |-> a.open_orders_admin,
                   consume_events_admin |-> a.consume_events_admin,
                   close_market_admin |-> a.close_market_admin,
                   event_authority |-> a.event_authority,
                   program |-> "openbook_v2",
                   token_program |-> [seed |-> "token_program"],
                   associated_token_program |-> [seed |-> "associated_token_program"]],
     data |-> [ix |-> "CreateMarket", name |-> a.name,
               oracle_config |-> a.oracle_config,
               base_lot_size |-> a.base_lot_size,
               quote_lot_size |-> a.quote_lot_size,
               maker_fee |-> a.maker_fee,
               taker_fee |-> a.taker_fee,
               time_expiry |-> a.time_expiry]]

\* mutant of OrderOpLog: the operation fetches the market again before the
\* blockhash
OrderOpLog_Refetch(ix, ok) ==
    IF ~ix.ok THEN <<>>
    ELSE <<Rpc("get_account", TRUE), Rpc("get_latest_blockhash", ok)>>

\* the remote calls of an operation that builds one instruction and hands it
\* to to_trx (lines 223, 285, 329, 374, 502, 575, 612): the blockhash fetch of
\* to_trx (lines 640-644), unless building the instruction panicked
OrderOpLog(ix, ok) ==
    IF ~ix.ok THEN <<>> ELSE <<Rpc("get_latest_blockhash", ok)>>

\* what an order operation returns: the built instruction goes through to_trx,
\* whose blockhash fetch answers (ok) or fails
OrderResult(ix, ok) ==
    IF ~ix.ok THEN Panicked
    ELSE IF ~ok THEN Err("get_latest_blockhash")
    ELSE Ok(to_trx(<<ix.v>>, blockhash))

(***************************************************************************)
(* ConvSpec: the conversion functions and the order operations applied to  *)
(* a constructed client, over every market of Markets and both builds.     *)
(***************************************************************************)
LotSizes == {1, 10}
\* maker fees in millionths: a rebate and a fee
MakerFees == {-50, 50}
\* readings of the system clock (seconds) and generated client order ids
Clock == {0, 1}
Oids == {0, 1}
\* the clock reading and the order id of one call
Stamps == {st \in [now : Clock, oid : Oids] : st.now # st.oid}

Markets ==
    {MarketOf(bd, qd, bl, ql, fee) :
        bd \in 0..MaxDecimals, qd \in 0..MaxDecimals,
        bl \in LotSizes, ql \in LotSizes, fee \in MakerFees}

\* the sizes the lot functions are applied to: small ones, USD sizes at the
\* quote scale, and the largest u64
Sizes ==
    (0..MaxQuoteUsd) \cup {u * 10^6 : u \in 0..MaxQuoteUsd} \cup {U64Max}

\* the sizes the USD wrappers are applied to
UsdSizes == (0..MaxQuoteUsd) \cup {U64Max}

\* order ids handed to cancel_limit_order
OrderIds == {0, 1}

\* argument records of deposit: amounts of 0 and 1 on the client's market
DepositArgs ==
    {[market_address |-> MarketId,
      base_amount |-> b, quote_amount |-> q,
      user_base_account |-> AssociatedTokenAddress(Owner, [seed |-> "base_mint"]),
      user_quote_account |-> AssociatedTokenAddress(Owner, [seed |-> "quote_mint"]),
      market_base_vault |-> [seed |-> "base_vault"],
      market_quote_vault |-> [seed |-> "quote_vault"]] : b \in {0, 1}, q \in {0, 1}}

\* argument records of create_market: a new market with either lot size
CreateMarketArgs ==
    {[market |-> [seed |-> "new_market"],
      market_authority |-> [seed |-> "market_authority"],
      bids |-> [seed |-> "new_bids"], asks |-> [seed |-> "new_asks"],
      event_heap |-> [seed |-> "new_event_heap"],
      base_mint |-> [seed |-> "base_mint"], quote_mint |-> [seed |-> "quote_mint"],
      oracle_a |-> None, oracle_b |-> None,
      collect_fee_admin |-> [seed |-> "admin"],
      open_orders_admin |-> None, consume_events_admin |-> None,
      close_market_admin |-> None,
      event_authority |-> [seed |-> "event_authority"],
      name |-> "market", oracle_config |-> [conf_filter |-> 0],
      base_lot_size |-> l, quote_lot_size |-> l,
      maker_fee |-> 0, taker_fee |-> 0, time_expiry |-> 0] : l \in LotSizes}

\* the account numbers of scanned accounts: small ones and the largest u32
ScanNums == (0..MaxAccountNum) \cup {U32Max}

\* the scan results find_or_create_account computes an account number from:
\* up to MaxAccounts accounts of the owner, in any order, none of which
\* carries the desired name (line 410)
Scans ==
    LET others == {Tuple(Owner, n, "other") : n \in ScanNums}
    IN  {<<>>} \cup
        UNION {{sc \in [1..k -> others] :
                  \A i, j \in 1..k : i # j => sc[i] # sc[j]} : k \in 1..MaxAccounts}

ConvInit ==
    /\ market \in Markets
    /\ accounts = <<StrangerAccount>>
    /\ blockhash = 0
    /\ pc = [c \in Callers |-> "ready"]
    /\ call = [c \in Callers |-> NoCall]
    /\ ob_client = NewClient(market, Some(OpenOrdersAddress(Owner, 0)))
    /\ account_num = [c \in Callers |-> NoNum]
    /\ created = [c \in Callers |-> None]
    /\ result = [c \in Callers |-> NoReturn]
    /\ log = [c \in Callers |-> <<>>]
    /\ raced = FALSE
    /\ build \in Builds
    /\ out = NoOut

\* the caller applies one operation at a time and takes what it returned
Applied(o) ==
    /\ out = NoOut
    /\ out' = o
    /\ UNCHANGED <<remoteVars, lifeVars, build>>

Take ==
    /\ out # NoOut
    /\ out' = NoOut
    /\ UNCHANGED <<remoteVars, lifeVars, build>>

ApplyNativePriceToLotsPrice(p) ==
    Applied([op |-> "native_price_to_lots_price", price |-> p,
             ret |-> native_price_to_lots_price(ob_client.market_info, p)])

ApplyGetBaseSizeFromQuote(q, p) ==
    Applied([op |-> "get_base_size_from_quote", size |-> q, price |-> p,
             ret |-> get_base_size_from_quote(ob_client.market_info, q, p)])

ApplyMaxBaseLots(b) ==
    Applied([op |-> "max_base_lots", size |-> b,
             ret |-> max_base_lots(ob_client.context.market, Val(b))])

ApplyMaxBaseLotsFromUsd(b) ==
    Applied([op |-> "max_base_lots_from_usd", size |-> b,
             ret |-> max_base_lots_from_usd(ob_client.context.market, Val(b), build)])

ApplyMaxQuoteLots(q) ==
    Applied([op |-> "max_quote_lots_including_maker_fees", size |-> q,
             ret |-> max_quote_lots_including_maker_fees(
                         ob_client.context.market, Val(q), build)])

ApplyMaxQuoteLotsFromUsd(q) ==
    Applied([op |-> "max_quote_lots_including_maker_fees_from_usd", size |-> q,
             ret |-> max_quote_lots_including_maker_fees_from_usd(
                         ob_client.context.market, Val(q), build)])

ApplyNextAccountNum(sc) ==
    Applied([op |-> "next_account_num", scan |-> sc,
             ret |-> NextAccountNum(sc, build)])

PlaceLimitOrder(p, q, side, now, oid, ok) ==
    LET ix == place_limit_order_ix(ob_client, p, q, side, now, oid, build)
    IN  Applied([op |-> "place_limit_order", price |-> p, size |-> q,
                 side |-> side, now |-> now, oid |-> oid,
                 log |-> OrderOpLog(ix, ok), ret |-> OrderResult(ix, ok)])

PlaceMarketOrder(p, q, side, now, oid, ok) ==
    LET ix == place_market_order_ix(ob_client, p, q, side, now, oid, build)
    IN  Applied([op |-> "place_market_order", price |-> p, size |-> q,
                 side |-> side, now |-> now, oid |-> oid,
                 log |-> OrderOpLog(ix, ok), ret |-> OrderResult(ix, ok)])

\* an operation that builds one instruction from its arguments and returns
\* what to_trx returns
TxOp(op, args, ix, ok) ==
    Applied([op |-> op, args |-> args, ix |-> ix,
             log |-> OrderOpLog(Val(ix), ok), ret |-> OrderResult(Val(ix), ok)])

CancelLimitOrder(order_id, ok) ==
    TxOp("cancel_limit_order", order_id, CancelOrderIx(ob_client, order_id), ok)

CancelAll(ok) ==
    TxOp("cancel_all", None, CancelAllOrdersIx(ob_client), ok)

Deposit(a, ok) ==
    TxOp("deposit", a, DepositIx(ob_client, a), ok)

CreateMarket(a, ok) ==
    TxOp("create_market", a, CreateMarketIx(ob_client, a), ok)

CreateOpenOrdersAccount(num, name, ok) ==
    TxOp("create_open_orders_account", <<num, name>>,
         CreateOpenOrdersAccountIx(ob_client, num, name), ok)

\* the ledger moves on: the gateway hands out a newer blockhash
NewBlock ==
    /\ blockhash < MaxBlock
    /\ blockhash' = blockhash + 1
    /\ UNCHANGED <<market, accounts, lifeVars, convVars>>

ConvNext ==
    \/ Take
    \/ NewBlock
    \/ \E id \in OrderIds, ok \in BOOLEAN : CancelLimitOrder(id, ok)
    \/ \E ok \in BOOLEAN : CancelAll(ok)
    \/ \E a \in DepositArgs, ok \in BOOLEAN : Deposit(a, ok)
    \/ \E a \in CreateMarketArgs, ok \in BOOLEAN : CreateMarket(a, ok)
    \/ \E n \in 0..MaxAccountNum, name \in Names, ok \in BOOLEAN :
          CreateOpenOrdersAccount(n, name, ok)
    \/ \E p \in Prices : ApplyNativePriceToLotsPrice(p)
    \/ \E q \in 0..MaxQuoteUsd, p \in Prices : ApplyGetBaseSizeFromQuote(q, p)
    \/ \E b \in Sizes : ApplyMaxBaseLots(b)
    \/ \E b \in UsdSizes : ApplyMaxBaseLotsFromUsd(b)
    \/ \E q \in Sizes : ApplyMaxQuoteLots(q)
    \/ \E q \in UsdSizes : ApplyMaxQuoteLotsFromUsd(q)
    \/ \E sc \in Scans : ApplyNextAccountNum(sc)
    \/ \E p \in Prices, q \in 0..MaxQuoteUsd, side \in Sides,
          st \in Stamps, ok \in BOOLEAN :
          PlaceLimitOrder(p, q, side, st.now, st.oid, ok)
    \/ \E p \in Prices, q \in 0..MaxQuoteUsd, side \in Sides,
          st \in Stamps, ok \in BOOLEAN :
          PlaceMarketOrder(p, q, side, st.now, st.oid, ok)

ConvSpec == ConvInit /\ [][ConvNext]_vars

(***************************************************************************)
(* Properties of ConvSpec.                                                 *)
(***************************************************************************)
IsOrderOp == out.op \in {"place_limit_order", "place_market_order"}

\* a zero, negative or non-finite f64
BadPrice(p) == p.k # "fin" \/ p.n <= 0

\* C6: for every market and every positive finite price,
\* native_price_to_lots_price returns price * 10^(base_decimals -
\* quote_decimals), truncated to an integer.
C6_PriceScaledAndTruncated ==
    (out.op = "native_price_to_lots_price" /\ ~BadPrice(out.price))
    => out.ret = (out.price.n * 10^market.base_decimals)
                     \div (out.price.d * 10^market.quote_decimals)

\* C7: max_quote_lots_including_maker_fees_from_usd(q) is
\* max_quote_lots_including_maker_fees(q * 10^6), and max_base_lots_from_usd(b)
\* is max_base_lots(b * 10^base_decimals).
C7_UsdWrappersScale ==
    /\ (out.op = "max_quote_lots_including_maker_fees_from_usd"
            /\ out.size <= MaxQuoteUsd)
       => out.ret = max_quote_lots_including_maker_fees(
                        market, Val(out.size * 10^6), build)
    /\ (out.op = "max_base_lots_from_usd" /\ out.size <= MaxQuoteUsd)
       => out.ret = max_base_lots(market, Val(out.size * 10^market.base_decimals))

\* C8: for a market with positive lot sizes and a quote size whose lots and
\* fee together fit a u64, max_quote_lots_including_maker_fees is
\* floor(quote_size / quote_lot_size) plus the maker fee applied to quote_size
\* and floored, and so at least floor(quote_size / quote_lot_size).
C8_QuoteLotsIncludeFeeFloor ==
    out.op = "max_quote_lots_including_maker_fees" =>
      LET lots == out.size \div market.quote_lot_size
          fee == IF market.maker_fee > 0
                 THEN (out.size * market.maker_fee) \div 10^6
                 ELSE 0
      IN  lots + fee <= U64Max =>
            /\ out.ret = Val(lots + fee)
            /\ out.ret.v >= lots

\* C8's case: the function applied where the fee floor is positive
C8_Witness ==
    /\ out.op = "max_quote_lots_including_maker_fees"
    /\ out.ret.ok
    /\ out.ret.v > out.size \div market.quote_lot_size
    /\ market.quote_lot_size > 1

\* C9: an order operation given a zero, negative or non-finite price returns
\* no transaction: the price is not clamped and carried into an order.
C9_BadPriceBuildsNoOrder ==
    (IsOrderOp /\ BadPrice(out.price)) => out.ret.kind # "Ok"

\* C10: the place-order instruction of a bid carries the owner's quote token
\* account and the market's quote vault, that of an ask the owner's base token
\* account and the market's base vault.
C10_SideSelectsAccountAndVault ==
    (IsOrderOp /\ out.ret.kind = "Ok") =>
      LET ix == out.ret.val.instructions[1]
      IN  /\ ix.data.side = out.side
          /\ out.side = "Bid" =>
                /\ ix.accounts.user_token_account =
                      AssociatedTokenAddress(Owner, market.quote_mint)
                /\ ix.accounts.market_vault = market.market_quote_vault
          /\ out.side = "Ask" =>
                /\ ix.accounts.user_token_account =
                      AssociatedTokenAddress(Owner, market.base_mint)
                /\ ix.accounts.market_vault = market.market_base_vault

\* C10's case: a limit order on the ask side was built
C10_Witness ==
    /\ out.op = "place_limit_order"
    /\ out.ret.kind = "Ok"
    /\ ~BadPrice(out.price)
    /\ out.size > 0
    /\ out.side = "Ask"
    /\ out.ret.val.instructions[1].accounts.market_vault = market.market_base_vault

\* the largest account number of a non-empty scan
ScanMax(sc) ==
    LET nums == {sc[i].account.account_num : i \in 1..Len(sc)}
    IN  CHOOSE m \in nums : \A n \in nums : n <= m

TxOps ==
    {"place_limit_order", "place_market_order", "cancel_limit_order",
     "cancel_all", "deposit", "create_market", "create_open_orders_account"}

\* C11: every operation that returns a transaction fetched the blockhash
\* once, after its instruction was built, and the transaction is signed over
\* the blockhash the gateway hands out at that moment, with the owner as fee
\* payer and sole signer and the built instruction as its instructions.
C11_Step ==
    (out' # out /\ out'.op \in TxOps /\ out'.ret.kind = "Ok") =>
      LET tx == out'.ret.val
      IN  /\ tx.recent_blockhash = blockhash
          /\ out'.log = <<Rpc("get_latest_blockhash", TRUE)>>
          /\ tx.fee_payer = Owner
          /\ tx.signers = <<Owner>>
          /\ Len(tx.instructions) = 1
          /\ (~IsOrderOp' => tx.instructions = <<out'.ix>>)
          /\ (out'.op = "place_limit_order" =>
                tx.instructions = <<place_limit_order_ix(ob_client, out'.price,
                    out'.size, out'.side, out'.now, out'.oid, build).v>>)
          /\ (out'.op = "place_market_order" =>
                tx.instructions = <<place_market_order_ix(ob_client, out'.price,
                    out'.size, out'.side, out'.now, out'.oid, build).v>>)

C11_FreshBlockhash == [][C11_Step]_vars

\* C11's case: a transaction was returned after the ledger had moved on, and
\* it carries the newer blockhash
C11_Witness ==
    /\ out.op \in TxOps
    /\ out.ret.kind = "Ok"
    /\ blockhash > 0
    /\ out.ret.val.recent_blockhash = blockhash

\* C13: an operation that returns a transaction leaves the client (market
\* snapshot, context, token accounts, order account) and the ledger (market,
\* order accounts) as they were, and its only remote call is one blockhash
\* fetch.
C13_Step ==
    (out' # out /\ out'.op \in TxOps) =>
      /\ ob_client' = ob_client
      /\ market' = market
      /\ accounts' = accounts
      /\ blockhash' = blockhash
      /\ Len(out'.log) <= 1
      /\ \A i \in 1..Len(out'.log) : out'.log[i].rpc = "get_latest_blockhash"

C16_MarketOrderEqualsLimitOrder ==
    IsOrderOp =>
      LET lim == place_limit_order_ix(ob_client, out.price, out.size, out.side,
                                      out.now, out.oid, build)
          mkt == place_market_order_ix(ob_client, out.price, out.size, out.side,
                                       out.now, out.oid, build)
      IN  /\ lim = mkt
          /\ out.ret.kind = "Ok" =>
                /\ out.ret.val.instructions = <<lim.v>>
                /\ out.ret.val.instructions = <<mkt.v>>
                /\ lim.v.data.order_type = "PostOnly"
                /\ lim.v.data.expiry_timestamp = out.now + 86400
                /\ lim.v.data.self_trade_behavior = "AbortTransaction"
                /\ lim.v.data.limit = 12
                /\ lim.v.data.client_order_id = out.oid

\* C16's case: a market order on the bid side was built from a usable price
C16_Witness ==
    /\ out.op = "place_market_order"
    /\ out.ret.kind = "Ok"
    /\ ~BadPrice(out.price)
    /\ out.size > 0
    /\ out.side = "Bid"

=============================================================================
